---- MODULE Spec2Model ----
(***************************************************************************)
(* A model of rtf_dir_to_qti21 (src/main.py): the RTF markup stripper, the *)
(* text normalizer, the question parser, the QTI 2.1 package writer and    *)
(* the batch loop of main().                                               *)
(*                                                                         *)
(* Text is a sequence of character codes (Unicode code points), so that    *)
(* the character classes of the regular expressions ([a-zA-Z], \d, \s,     *)
(* [A-D], [a-d]) and str.lower / str.upper are range tests and arithmetic  *)
(* on the codes, as in the program.                                        *)
(***************************************************************************)
EXTENDS Integers, Sequences, FiniteSets, TLC

VARIABLES
    pc,          \* position of the run
    arg,         \* the inputs of the function under analysis (a sequence)
    ret,         \* the values it returned so far (a sequence)
    authored,    \* ghost: what the input was built from
    files,       \* main: sorted(indir.glob("*.rtf")), a sequence of names
    docs,        \* main: the bytes of each input file
    fi,          \* main: index of the file of the current iteration
    stdout,      \* main: the lines printed
    archives,    \* main: out_zip name -> the entries of the archive
    questions,   \* main / write_qti21: the records of the current file
    qi,          \* write_qti21: index of the record of the current iteration
    item_files,  \* write_qti21: the list item_files
    fs,          \* write_qti21: the work directory, path -> content
    writes       \* write_qti21: the paths written, in the order written

vars == <<pc, arg, ret, authored, files, docs, fi, stdout, archives,
          questions, qi, item_files, fs, writes>>

mainVars == <<files, docs, fi, stdout, archives, questions, qi, item_files,
              fs, writes>>

-----------------------------------------------------------------------------
(* Character codes and classes.                                            *)

NL == 10
CR == 13
SP == 32
QUOTE == 39
STAR == 42
MINUS == 45
DOT == 46
BSL == 92
LBRACE == 123
RBRACE == 125

\* \d, [a-zA-Z], [0-9a-fA-F], \s and the line breaks of str.splitlines on the
\* code points below 0x800; the digits are the ASCII ones, the only decimal
\* digits the inputs hold
IsDigit(c) == c \in 48..57
IsLetter(c) == c \in (65..90) \cup (97..122)
IsHex(c) == c \in (48..57) \cup (65..70) \cup (97..102)
IsSpace(c) == c \in {9, 10, 11, 12, 13, 28, 29, 30, 31, 32, 133, 160}
IsLineBreak(c) == c \in {10, 11, 12, 13, 28, 29, 30, 133, 8232, 8233}

HexVal(c) == IF c \in 48..57 THEN c - 48
             ELSE IF c \in 65..70 THEN c - 55
             ELSE c - 87

lower(c) == IF c \in 65..90 THEN c + 32 ELSE c
upper(c) == IF c \in 97..122 THEN c - 32 ELSE c

-----------------------------------------------------------------------------------------------------------------------------------------------------
(* String primitives.  Positions are 1-based.  A scan is written as "the   *)
(* first position from i on where ...", and a substitution as the leftmost *)
(* non-overlapping matches, which is how str.replace, re.sub, re.split and *)
(* re.finditer proceed.                                                    *)

MinOf(S) == CHOOSE x \in S : \A y \in S : x <= y

StartsAt(s, i, pat) ==
    /\ i >= 1
    /\ i + Len(pat) - 1 <= Len(s)
    /\ SubSeq(s, i, i + Len(pat) - 1) = pat

From(s, i) == SubSeq(s, i, Len(s))

\* the positions at which pat occurs in s
Occurrences(s, pat) == {j \in 1..Len(s) : StartsAt(s, j, pat)}

\* the text with each leftmost non-overlapping match replaced: m maps the
\* start of every possible match to its end (the position after it) and to
\* its replacement
RECURSIVE SubstituteFrom(_, _, _)
SubstituteFrom(s, i, m) ==
    LET later == {j \in DOMAIN m : j >= i}
    IN  IF later = {} THEN From(s, i)
        ELSE LET j == MinOf(later)
             IN  SubSeq(s, i, j - 1) \o m[j].rep
                 \o SubstituteFrom(s, m[j].end, m)

Substitute(s, m) == SubstituteFrom(s, 1, m)

\* str.replace(pat, rep)
Replace(s, pat, rep) ==
    Substitute(s, [j \in Occurrences(s, pat) |->
                      [end |-> j + Len(pat), rep |-> rep]])

\* str.find(pat) + 1: the position of the first occurrence, 0 when absent
Find(s, pat) ==
    IF Occurrences(s, pat) = {} THEN 0 ELSE MinOf(Occurrences(s, pat))

\* pat in s
Contains(s, pat) == Occurrences(s, pat) # {}

\* the first position >= i whose character is not in the class,
\* Len(s) + 1 when there is none
SkipSpace(s, i) ==
    CHOOSE j \in i..(Len(s) + 1) :
        /\ j > Len(s) \/ ~IsSpace(s[j])
        /\ \A k \in i..(j - 1) : IsSpace(s[k])

SkipDigits(s, i) ==
    CHOOSE j \in i..(Len(s) + 1) :
        /\ j > Len(s) \/ ~IsDigit(s[j])
        /\ \A k \in i..(j - 1) : IsDigit(s[k])

SkipLetters(s, i) ==
    CHOOSE j \in i..(Len(s) + 1) :
        /\ j > Len(s) \/ ~IsLetter(s[j])
        /\ \A k \in i..(j - 1) : IsLetter(s[k])

SkipNewlines(s, i) ==
    CHOOSE j \in i..(Len(s) + 1) :
        /\ j > Len(s) \/ s[j] # NL
        /\ \A k \in i..(j - 1) : s[k] = NL

SkipNonBrace(s, i) ==
    MinOf({j \in i..Len(s) : s[j] = LBRACE \/ s[j] = RBRACE}
          \cup {Len(s) + 1})

\* str.strip()
Strip(s) ==
    LET a == SkipSpace(s, 1)
        b == CHOOSE j \in 0..Len(s) :
                 /\ j = 0 \/ ~IsSpace(s[j])
                 /\ \A k \in (j + 1)..Len(s) : IsSpace(s[k])
    IN  SubSeq(s, a, b)

\* sep.join(parts)
RECURSIVE Join(_, _)
Join(parts, sep) ==
    IF parts = <<>> THEN <<>>
    ELSE IF Len(parts) = 1 THEN parts[1]
    ELSE parts[1] \o sep \o Join(Tail(parts), sep)

\* re.sub(r"\n+", " ", s)
CollapseNewlines(s) ==
    Substitute(s, [j \in Occurrences(s, <<NL>>) |->
                      [end |-> SkipNewlines(s, j), rep |-> <<SP>>]])

-----------------------------------------------------------------------------
(* rtf_to_text                                                             *)

\* bytes.decode("utf-8", errors="ignore") for bytes below 0xE0: an ASCII
\* byte is itself, a two-byte sequence is its code point, and a byte that
\* starts no valid sequence is dropped
IsTwoByte(b, j) ==
    /\ b[j] \in 194..223
    /\ j + 1 <= Len(b)
    /\ b[j + 1] \in 128..191

Decode(b) ==
    Substitute(b, [j \in {k \in 1..Len(b) : b[k] >= 128} |->
        IF IsTwoByte(b, j)
        THEN [end |-> j + 2,
              rep |-> <<(b[j] - 192) * 64 + (b[j + 1] - 128)>>]
        ELSE [end |-> j + 1, rep |-> <<>>]])

\* a match of \\'([0-9a-fA-F]{2}) at j
IsHexEscape(s, j) ==
    /\ j + 3 <= Len(s)
    /\ s[j] = BSL
    /\ s[j + 1] = QUOTE
    /\ IsHex(s[j + 2])
    /\ IsHex(s[j + 3])

\* re.sub(r"\\'([0-9a-fA-F]{2})", <the latin-1 character of the code>, s)
HexEscapes(s) ==
    Substitute(s, [j \in {k \in 1..Len(s) : IsHexEscape(s, k)} |->
        [end |-> j + 4,
         rep |-> <<16 * HexVal(s[j + 2]) + HexVal(s[j + 3])>>]])

\* "\par" and "\line"
kw_par == <<BSL, 112, 97, 114>>
kw_line == <<BSL, 108, 105, 110, 101>>

\* s.replace("\\par", "\n").replace("\\line", "\n")
LineBreaks(s) == Replace(Replace(s, kw_par, <<NL>>), kw_line, <<NL>>)

\* s.replace("\\{", "{").replace("\\}", "}").replace("\\\\", "\\")
Unescape(s) ==
    Replace(Replace(Replace(s, <<BSL, LBRACE>>, <<LBRACE>>),
                    <<BSL, RBRACE>>, <<RBRACE>>),
            <<BSL, BSL>>, <<BSL>>)

\* a match of {\\\*[^{}]*} at j
IsGroup(s, j) ==
    /\ StartsAt(s, j, <<LBRACE, BSL, STAR>>)
    /\ SkipNonBrace(s, j + 3) <= Len(s)
    /\ s[SkipNonBrace(s, j + 3)] = RBRACE

\* re.sub(r"{\\\*[^{}]*}", "", s)
RemoveGroups(s) ==
    Substitute(s, [j \in {k \in 1..Len(s) : IsGroup(s, k)} |->
        [end |-> SkipNonBrace(s, j + 3) + 1, rep |-> <<>>]])

\* the end of a match of \\[a-zA-Z]+-?\d* ? that starts at the backslash at i
ControlWordEnd(s, i) ==
    LET a == SkipLetters(s, i + 1)
        b == IF a <= Len(s) /\ s[a] = MINUS THEN a + 1 ELSE a
        c == SkipDigits(s, b)
    IN  IF c <= Len(s) /\ s[c] = SP THEN c + 1 ELSE c

IsControlWord(s, j) == s[j] = BSL /\ j + 1 <= Len(s) /\ IsLetter(s[j + 1])

\* re.sub(r"\\[a-zA-Z]+-?\d* ?", "", s)
RemoveControlWords(s) ==
    Substitute(s, [j \in {k \in 1..Len(s) : IsControlWord(s, k)} |->
        [end |-> ControlWordEnd(s, j), rep |-> <<>>]])

\* a variant of RemoveBraces that strips the opening braces only
RemoveBraces_open(s) == Replace(s, <<LBRACE>>, <<>>)

\* s.replace("{", "").replace("}", "")
RemoveBraces(s) == Replace(Replace(s, <<LBRACE>>, <<>>), <<RBRACE>>, <<>>)

\* re.sub(r"\n{3,}", "\n\n", s)
SqueezeNewlines(s) ==
    Substitute(s, [j \in Occurrences(s, <<NL, NL, NL>>) |->
        [end |-> SkipNewlines(s, j), rep |-> <<NL, NL>>]])

rtf_to_text(rtf) ==
    Strip(SqueezeNewlines(RemoveBraces(RemoveControlWords(RemoveGroups(
        Unescape(LineBreaks(HexEscapes(Decode(rtf)))))))))

-----------------------------------------------------------------------------
(* clean_text                                                              *)

\* str.splitlines(): "\r\n" is one line break, and a final line break opens
\* no further line
RECURSIVE SplitLinesFrom(_, _)
SplitLinesFrom(t, i) ==
    LET breaks == {j \in i..Len(t) : IsLineBreak(t[j])}
    IN  IF i > Len(t) THEN <<>>
        ELSE IF breaks = {} THEN <<From(t, i)>>
        ELSE LET j == MinOf(breaks)
             IN  <<SubSeq(t, i, j - 1)>>
                 \o SplitLinesFrom(t,
                        IF t[j] = CR /\ j + 1 <= Len(t) /\ t[j + 1] = NL
                        THEN j + 2 ELSE j + 1)

SplitLines(t) == SplitLinesFrom(t, 1)

\* [ln.strip() for ln in lines]
StripEach(lines) == [k \in 1..Len(lines) |-> Strip(lines[k])]

\* the artifact line "d"
artifact == <<100>>

Kept(ln) == ln # <<>> /\ ln # artifact

\* [ln for ln in lines if ln and ln != "d"]
KeepLines(lines) == SelectSeq(lines, Kept)

\* a variant of clean_text that filters the lines before it trims them
clean_text_filter_first(t) ==
    Join(StripEach(KeepLines(SplitLines(t))), <<NL>>)

clean_text(t) == Join(KeepLines(StripEach(SplitLines(t))), <<NL>>)

-----------------------------------------------------------------------------
(* parse_questions                                                         *)

\* "MULTIPLE CHOICE"
kw_marker == <<77, 85, 76, 84, 73, 80, 76, 69, 32, 67, 72, 79, 73, 67, 69>>

\* "ANS:"
kw_ans == <<65, 78, 83, 58>>

\* a variant of SkipPreamble that keeps the preamble
SkipPreamble_keep(text) == text

\* if "MULTIPLE CHOICE" in text: text = text.split("MULTIPLE CHOICE", 1)[1]
SkipPreamble(text) ==
    IF Contains(text, kw_marker)
    THEN From(text, Find(text, kw_marker) + Len(kw_marker))
    ELSE text

\* a match of \n(?=\d+\.) at i
IsBlockStart(s, i) ==
    /\ s[i] = NL
    /\ SkipDigits(s, i + 1) > i + 1
    /\ SkipDigits(s, i + 1) <= Len(s)
    /\ s[SkipDigits(s, i + 1)] = DOT

\* re.split(r"\n(?=\d+\.)", s)
RECURSIVE SplitBlocksFrom(_, _)
SplitBlocksFrom(s, i) ==
    LET starts == {j \in i..Len(s) : IsBlockStart(s, j)}
    IN  IF starts = {} THEN <<From(s, i)>>
        ELSE <<SubSeq(s, i, MinOf(starts) - 1)>>
             \o SplitBlocksFrom(s, MinOf(starts) + 1)

SplitBlocks(text) == SplitBlocksFrom(<<NL>> \o text, 1)

\* re.match(r"(\d+)\.\n(.*)", block, re.S)
BlockMatches(block) ==
    LET d == SkipDigits(block, 1)
    IN  /\ d > 1
        /\ d + 1 <= Len(block)
        /\ block[d] = DOT
        /\ block[d + 1] = NL

BlockDigits(block) == SubSeq(block, 1, SkipDigits(block, 1) - 1)
BlockBody(block) == From(block, SkipDigits(block, 1) + 2)

\* int(digits)
RECURSIVE IntOf(_)
IntOf(digits) ==
    IF digits = <<>> THEN 0
    ELSE 10 * IntOf(SubSeq(digits, 1, Len(digits) - 1))
         + (digits[Len(digits)] - 48)

\* a variant of IsAns whose pattern ignores the case of the letter
IsAns_ignorecase(body, i) ==
    /\ StartsAt(body, i, kw_ans)
    /\ SkipSpace(body, i + 4) <= Len(body)
    /\ body[SkipSpace(body, i + 4)] \in (65..68) \cup (97..100)

\* a match of ANS:\s*([A-D]) at i
IsAns(body, i) ==
    /\ StartsAt(body, i, kw_ans)
    /\ SkipSpace(body, i + 4) <= Len(body)
    /\ body[SkipSpace(body, i + 4)] \in 65..68

\* re.search(r"ANS:\s*([A-D])", body): the captured letter, 0 for no match
AnsSearch(body) ==
    LET found == {i \in 1..Len(body) : IsAns(body, i)}
    IN  IF found = {} THEN 0
        ELSE body[SkipSpace(body, MinOf(found) + 4)]

\* body.split("ANS:", 1)[0]
BeforeAns(body) ==
    IF Contains(body, kw_ans) THEN SubSeq(body, 1, Find(body, kw_ans) - 1)
    ELSE body

\* a match of \n([a-d])\.\s+ at i
IsOption(s, i) ==
    /\ s[i] = NL
    /\ i + 3 <= Len(s)
    /\ s[i + 1] \in 97..100
    /\ s[i + 2] = DOT
    /\ IsSpace(s[i + 3])

\* re.finditer(r"\n([a-d])\.\s+", s): for each match its start (the position
\* of the newline), its end (the position after the match) and the letter
RECURSIVE FindOptionsFrom(_, _)
FindOptionsFrom(s, i) ==
    LET found == {j \in i..Len(s) : IsOption(s, j)}
    IN  IF found = {} THEN <<>>
        ELSE LET j == MinOf(found)
             IN  <<[start |-> j, end |-> SkipSpace(s, j + 3),
                    letter |-> s[j + 1]]>>
                 \o FindOptionsFrom(s, SkipSpace(s, j + 3))

FindOptions(s) == FindOptionsFrom(s, 1)

\* the loop over opts that fills the dict options; a later assignment to the
\* same letter replaces the earlier one
RECURSIVE OptionsUpTo(_, _, _)
OptionsUpTo(s, opts, k) ==
    IF k = 0 THEN <<>>
    ELSE LET o == opts[k]
             stop == IF k + 1 <= Len(opts) THEN opts[k + 1].start - 1
                     ELSE Len(s)
         IN  (o.letter :> Strip(CollapseNewlines(SubSeq(s, o.end, stop))))
             @@ OptionsUpTo(s, opts, k - 1)

\* a variant of BlockResult that leaves the newlines of the stem in place
BlockResult_rawstem(rawblock) ==
    LET block == Strip(rawblock)
        num == IntOf(BlockDigits(block))
        body == BlockBody(block)
        ans == AnsSearch(body)
        s == <<NL>> \o BeforeAns(body)
        opts == FindOptions(s)
    IN  IF block = <<>> THEN [kind |-> "skip"]
        ELSE IF ~BlockMatches(block) THEN [kind |-> "skip"]
        ELSE IF ans = 0
             THEN [kind |-> "raise", exc |-> "ValueError", num |-> num]
        ELSE IF opts = <<>>
             THEN [kind |-> "raise", exc |-> "IndexError", num |-> 0]
        ELSE [kind |-> "append",
              q |-> [num |-> num,
                     stem |-> Strip(SubSeq(s, 1, opts[1].start - 1)),
                     options |-> OptionsUpTo(s, opts, Len(opts)),
                     answer |-> lower(ans)]]

\* one iteration of the loop over blocks:
\* "skip" (continue), "raise" or "append" (a record)
BlockResult(rawblock) ==
    LET block == Strip(rawblock)
        num == IntOf(BlockDigits(block))
        body == BlockBody(block)
        ans == AnsSearch(body)
        s == <<NL>> \o BeforeAns(body)
        opts == FindOptions(s)
    IN  IF block = <<>> THEN [kind |-> "skip"]
        ELSE IF ~BlockMatches(block) THEN [kind |-> "skip"]
        ELSE IF ans = 0
             THEN [kind |-> "raise", exc |-> "ValueError", num |-> num]
        ELSE IF opts = <<>>
             THEN [kind |-> "raise", exc |-> "IndexError", num |-> 0]
        ELSE [kind |-> "append",
              q |-> [num |-> num,
                     stem |-> CollapseNewlines(
                                  Strip(SubSeq(s, 1, opts[1].start - 1))),
                     options |-> OptionsUpTo(s, opts, Len(opts)),
                     answer |-> lower(ans)]]

\* the loop over blocks; an exception leaves the function without a value
RECURSIVE ParseBlocks(_, _, _)
ParseBlocks(blocks, i, acc) ==
    IF i > Len(blocks) THEN [exc |-> "none", num |-> 0, questions |-> acc]
    ELSE LET r == BlockResult(blocks[i])
         IN  IF r.kind = "skip" THEN ParseBlocks(blocks, i + 1, acc)
             ELSE IF r.kind = "raise"
                  THEN [exc |-> r.exc, num |-> r.num, questions |-> <<>>]
             ELSE ParseBlocks(blocks, i + 1, Append(acc, r.q))

\* the records qs in ascending order of their numbers
RECURSIVE SortedByNum(_)
SortedByNum(qs) ==
    IF qs = <<>> THEN <<>>
    ELSE LET k == MinOf({i \in 1..Len(qs) :
                             \A j \in 1..Len(qs) : qs[i].num <= qs[j].num})
         IN  <<qs[k]>>
             \o SortedByNum(SubSeq(qs, 1, k - 1) \o SubSeq(qs, k + 1, Len(qs)))

\* a variant of parse_questions that returns the records in numeric order
parse_questions_sorted(text) ==
    LET r == ParseBlocks(SplitBlocks(SkipPreamble(text)), 1, <<>>)
    IN  [r EXCEPT !.questions = SortedByNum(r.questions)]

parse_questions(text) == ParseBlocks(SplitBlocks(SkipPreamble(text)), 1, <<>>)

-----
(* write_qti21                                                             *)

\* fixed strings of the writer
AMP == <<38, 97, 109, 112, 59>>
LT == <<38, 108, 116, 59>>
GT == <<38, 103, 116, 59>>
kw_items == <<105, 116, 101, 109, 115, 47>>
kw_xml == <<46, 120, 109, 108>>
kw_choice == <<67, 72, 79, 73, 67, 69, 95>>
kw_question == <<81, 117, 101, 115, 116, 105, 111, 110, 32>>
kw_test == <<97, 115, 115, 101, 115, 115, 109, 101, 110, 116, 84, 101, 115, 116, 46, 120, 109, 108>>
kw_manifest == <<105, 109, 115, 109, 97, 110, 105, 102, 101, 115, 116, 46, 120, 109, 108>>
kw_qti21 == <<95, 81, 84, 73, 50, 49>>
kw_zip == <<46, 122, 105, 112>>

\* html.escape(s, quote=False)
esc(s) ==
    Replace(Replace(Replace(s, <<38>>, AMP), <<60>>, LT), <<62>>, GT)

\* the decimal digits of n
RECURSIVE DigitsOf(_)
DigitsOf(n) ==
    IF n < 10 THEN <<48 + n>>
    ELSE DigitsOf(n \div 10) \o <<48 + (n % 10)>>

RECURSIVE ZeroPad(_, _)
ZeroPad(d, width) == IF Len(d) >= width THEN d ELSE ZeroPad(<<48>> \o d, width)

\* f"Q{q.num:03d}"
ItemId(num) == <<81>> \o ZeroPad(DigitsOf(num), 3)

\* f"items/{item_id}.xml"
ItemRel(num) == kw_items \o ItemId(num) \o kw_xml

\* sorted(keys)
RECURSIVE SortedSeq(_)
SortedSeq(S) ==
    IF S = {} THEN <<>>
    ELSE LET m == CHOOSE x \in S : \A y \in S : x <= y
         IN  <<m>> \o SortedSeq(S \ {m})

\* the simpleChoice elements, for k, v in sorted(q.options.items())
Choices(options) ==
    LET keys == SortedSeq(DOMAIN options)
    IN  [i \in 1..Len(keys) |->
            [identifier |-> kw_choice \o <<upper(keys[i])>>,
             text |-> esc(options[keys[i]])]]

\* item_xml: the fields of the item document that depend on the record
ItemXml(q) ==
    [identifier |-> ItemId(q.num),
     title |-> kw_question \o DigitsOf(q.num),
     correct |-> kw_choice \o <<upper(q.answer)>>,
     prompt |-> esc(q.stem),
     choices |-> Choices(q.options)]

\* test_xml: the title and the assessmentItemRef hrefs
TestXml(title, itemFiles) == [title |-> esc(title), refs |-> itemFiles]

\* manifest: the file hrefs of the resource
Manifest(itemFiles) == [files |-> <<kw_test>> \o itemFiles]

\* work / rel
WorkPath(work, rel) == work \o <<47>> \o rel

\* (work / rel).write_text(content)
WriteText(dir, path, content) ==
    [p \in DOMAIN dir \cup {path} |-> IF p = path THEN content ELSE dir[p]]

\* z.write(work / name, name) for the manifest, the test and each item file
ZipEntries(dir, work, itemFiles) ==
    <<[name |-> kw_manifest, content |-> dir[WorkPath(work, kw_manifest)]],
      [name |-> kw_test, content |-> dir[WorkPath(work, kw_test)]]>>
    \o [i \in 1..Len(itemFiles) |->
            [name |-> itemFiles[i],
             content |-> dir[WorkPath(work, itemFiles[i])]]]

-----------------------------------------------------------------------------
(* main                                                                    *)

\* lexicographic order of two names
RECURSIVE LexLess(_, _)
LexLess(a, b) ==
    IF b = <<>> THEN FALSE
    ELSE IF a = <<>> THEN TRUE
    ELSE IF Head(a) # Head(b) THEN Head(a) < Head(b)
    ELSE LexLess(Tail(a), Tail(b))

\* rtf.stem: the name without its last suffix
RECURSIVE LastDot(_, _)
LastDot(name, j) ==
    IF j <= 1 THEN 0
    ELSE IF name[j] = DOT THEN j
    ELSE LastDot(name, j - 1)

stem(name) ==
    IF LastDot(name, Len(name)) = 0 THEN name
    ELSE SubSeq(name, 1, LastDot(name, Len(name)) - 1)

\* a variant of sorted that orders the files by their stems
RECURSIVE sorted_by_stem(_)
sorted_by_stem(S) ==
    IF S = {} THEN <<>>
    ELSE LET m == CHOOSE x \in S :
                      \A y \in S \ {x} : LexLess(stem(x), stem(y))
         IN  <<m>> \o sorted_by_stem(S \ {m})

\* sorted(args.indir.glob("*.rtf"))
RECURSIVE sorted(_)
sorted(S) ==
    IF S = {} THEN <<>>
    ELSE LET m == CHOOSE x \in S : \A y \in S \ {x} : LexLess(x, y)
         IN  <<m>> \o sorted(S \ {m})

\* f"{rtf.stem}_QTI21.zip"
OutZip(name) == stem(name) \o kw_qti21 \o kw_zip

\* out_zip.with_suffix("")
Work(name) == stem(name) \o kw_qti21

\* clean_text(rtf_to_text(rtf.read_bytes())) and parse_questions(text)
Converted(bytes) == parse_questions(clean_text(rtf_to_text(bytes)))

Line(kind, name, count) == [kind |-> kind, name |-> name, count |-> count]

\* args.outdir.mkdir(exist_ok=True) and the evaluation of sorted(...)
MainStart ==
    /\ pc = "start"
    /\ files' = sorted(DOMAIN docs)
    /\ fi' = 1
    /\ pc' = "loop"
    /\ UNCHANGED <<arg, ret, authored, docs, stdout, archives, questions, qi,
                   item_files, fs, writes>>

\* one iteration of the loop of main up to the call of write_qti21; an
\* exception of parse_questions is not caught and ends the process
Convert ==
    /\ pc = "loop"
    /\ fi <= Len(files)
    /\ LET r == Converted(docs[files[fi]])
       IN  /\ stdout' = Append(stdout, Line("Converting", files[fi], 0))
           /\ IF r.exc # "none"
              THEN /\ pc' = "crashed"
                   /\ ret' = <<r>>
                   /\ UNCHANGED <<questions, qi, item_files, writes>>
              ELSE /\ pc' = "items"
                   /\ questions' = r.questions
                   /\ qi' = 1
                   /\ item_files' = <<>>
                   /\ writes' = <<>>
                   /\ UNCHANGED ret
    /\ UNCHANGED <<arg, authored, files, docs, fi, archives, fs>>

\* write_qti21: one iteration of the loop over questions
WriteItem ==
    /\ pc = "items"
    /\ qi <= Len(questions)
    /\ LET q == questions[qi]
           path == WorkPath(Work(files[fi]), ItemRel(q.num))
       IN  /\ fs' = WriteText(fs, path, ItemXml(q))
           /\ writes' = Append(writes, path)
           /\ item_files' = Append(item_files, ItemRel(q.num))
    /\ qi' = qi + 1
    /\ UNCHANGED <<pc, arg, ret, authored, files, docs, fi, stdout, archives,
                   questions>>

\* write_qti21: assessmentTest.xml
WriteTest ==
    /\ pc = "items"
    /\ qi > Len(questions)
    /\ LET path == WorkPath(Work(files[fi]), kw_test)
       IN  /\ fs' = WriteText(fs, path, TestXml(stem(files[fi]), item_files))
           /\ writes' = Append(writes, path)
    /\ pc' = "manifest"
    /\ UNCHANGED <<arg, ret, authored, files, docs, fi, stdout, archives,
                   questions, qi, item_files>>

\* write_qti21: imsmanifest.xml
WriteManifest ==
    /\ pc = "manifest"
    /\ LET path == WorkPath(Work(files[fi]), kw_manifest)
       IN  /\ fs' = WriteText(fs, path, Manifest(item_files))
           /\ writes' = Append(writes, path)
    /\ pc' = "zip"
    /\ UNCHANGED <<arg, ret, authored, files, docs, fi, stdout, archives,
                   questions, qi, item_files>>

\* write_qti21: the archive; then the summary line of main and the next file
Zip ==
    /\ pc = "zip"
    /\ archives' = WriteText(archives, OutZip(files[fi]),
                             ZipEntries(fs, Work(files[fi]), item_files))
    /\ stdout' = Append(stdout,
                        Line("Summary", OutZip(files[fi]), Len(questions)))
    /\ fi' = fi + 1
    /\ pc' = "loop"
    /\ UNCHANGED <<arg, ret, authored, files, docs, questions, qi,
                   item_files, fs, writes>>

\* print("Done.")
Done ==
    /\ pc = "loop"
    /\ fi > Len(files)
    /\ stdout' = Append(stdout, Line("Done.", <<>>, 0))
    /\ pc' = "done"
    /\ UNCHANGED <<arg, ret, authored, files, docs, fi, archives, questions,
                   qi, item_files, fs, writes>>

Next == MainStart \/ Convert \/ WriteItem \/ WriteTest \/ WriteManifest
        \/ Zip \/ Done

-----------------------------------------------------------------------------
(* The inputs of main: a directory of RTF files.                           *)

MaxFiles == 3
MaxQuestions == 3

\* "b.rtf", "a.rtf", "a-b.rtf", "ab.rtf"
NamePool == <<<<98, 46, 114, 116, 102>>, <<97, 46, 114, 116, 102>>, <<97, 45, 98, 46, 114, 116, 102>>, <<97, 98, 46, 114, 116, 102>>>>

Names == {NamePool[i] : i \in 1..(IF MaxFiles < 4 THEN MaxFiles ELSE 4)}

\* a document is a sequence of question blocks; a block is authored with the
\* digits of its number and the letter of its ANS line (0: no ANS line)
Block(digits, ans) == [digits |-> digits, ans |-> ans]

RECURSIVE SeqsUpTo(_, _)
SeqsUpTo(S, n) ==
    IF n = 0 THEN {<<>>}
    ELSE LET shorter == SeqsUpTo(S, n - 1)
         IN  shorter \cup {Append(q, x) : q \in {r \in shorter : Len(r) = n - 1},
                                          x \in S}

\* every document of up to MaxQuestions blocks numbered 1, 2 or 3
WideDocs ==
    SeqsUpTo({Block(<<d>>, a) : d \in {49, 50, 51}, a \in {0, 66}},
             MaxQuestions)

\* a few documents: no question, one, two, and two with a missing answer
NarrowDocs ==
    {<<>>,
     <<Block(<<49>>, 65)>>,
     <<Block(<<50>>, 66), Block(<<49, 50>>, 67)>>,
     <<Block(<<49>>, 65), Block(<<50>>, 0)>>}

\* the lines of the k-th block: "<digits>.", "S<k>", "a. A&B", "b. Y<k>",
\* and "ANS: <letter>"
BlockLines(b, k) ==
    <<b.digits \o <<DOT>>, <<83, 48 + k>>, <<97, 46, 32, 65, 38, 66>>, <<98, 46, 32, 89>> \o <<48 + k>>>>
    \o (IF b.ans = 0 THEN <<>> ELSE <<<<65, 78, 83, 58, 32>> \o <<b.ans>>>>)

RECURSIVE DocLines(_, _)
DocLines(doc, k) ==
    IF k > Len(doc) THEN <<>>
    ELSE BlockLines(doc[k], k) \o DocLines(doc, k + 1)

\* the RTF file of a document:
\* {\rtf1 Exam\par MULTIPLE CHOICE\par <line>\par <line> ... }
RenderRtf(doc) ==
    <<123, 92, 114, 116, 102, 49, 32>>
    \o Join(<<<<69, 120, 97, 109>>, kw_marker>> \o DocLines(doc, 1), kw_par \o <<SP>>)
    \o <<RBRACE>>

\* the records a document was authored with, in order of appearance
AuthoredRecord(b, k) ==
    [num |-> IntOf(b.digits),
     stem |-> <<83, 48 + k>>,
     options |-> (97 :> <<65, 38, 66>>) @@ (98 :> (<<89>> \o <<48 + k>>)),
     answer |-> b.ans + 32]

\* the item path a block was authored for: its digits, zero-padded to 3
AuthoredItem(b) == kw_items \o <<81>> \o ZeroPad(b.digits, 3) \o kw_xml

AuthoredItems(doc) == [k \in 1..Len(doc) |-> AuthoredItem(doc[k])]

Init ==
    /\ pc = "start"
    /\ arg = <<>>
    /\ ret = <<>>
    /\ \E F \in SUBSET Names :
          /\ authored \in [F -> IF Cardinality(F) = 1 THEN WideDocs
                                ELSE NarrowDocs]
          /\ docs = [n \in F |-> RenderRtf(authored[n])]
    /\ files = <<>>
    /\ fi = 0
    /\ stdout = <<>>
    /\ archives = <<>>
    /\ questions = <<>>
    /\ qi = 0
    /\ item_files = <<>>
    /\ fs = <<>>
    /\ writes = <<>>

Spec == Init /\ [][Next]_vars

-----------------------------------------------------------------------------
(* The functions on their own: each specification draws the arguments of   *)
(* one function from a bounded set and calls it.                           *)

NoMain ==
    /\ files = <<>>
    /\ docs = <<>>
    /\ fi = 0
    /\ stdout = <<>>
    /\ archives = <<>>
    /\ questions = <<>>
    /\ qi = 0
    /\ item_files = <<>>
    /\ fs = <<>>
    /\ writes = <<>>

\* ---- rtf_to_text ----

MaxRtfLen == 4

\* the bytes \ { } ' 7 b and the space
RtfBytes == {BSL, LBRACE, RBRACE, QUOTE, 55, 98, SP}

InitRtf ==
    /\ pc = "rtf"
    /\ \E b \in SeqsUpTo(RtfBytes, MaxRtfLen) : arg = <<b>> /\ authored = b
    /\ ret = <<>>
    /\ NoMain

RtfCall ==
    /\ pc = "rtf"
    /\ ret' = <<rtf_to_text(arg[1])>>
    /\ pc' = "returned"
    /\ UNCHANGED <<arg, authored>>
    /\ UNCHANGED mainVars

NextRtf == RtfCall

SpecRtf == InitRtf /\ [][NextRtf]_vars

\* ---- clean_text ----

MaxCleanLen == 5

\* the characters space, newline, carriage return, d and x
CleanChars == {SP, NL, CR, 100, 120}

InitClean ==
    /\ pc = "clean"
    /\ \E t \in SeqsUpTo(CleanChars, MaxCleanLen) : arg = <<t>> /\ authored = t
    /\ ret = <<>>
    /\ NoMain

CleanCall ==
    /\ pc = "clean"
    /\ ret' = <<clean_text(arg[1])>>
    /\ pc' = "cleaned"
    /\ UNCHANGED <<arg, authored>>
    /\ UNCHANGED mainVars

\* the normalizer applied to its own output
CleanAgain ==
    /\ pc = "cleaned"
    /\ ret' = Append(ret, clean_text(ret[1]))
    /\ pc' = "recleaned"
    /\ UNCHANGED <<arg, authored>>
    /\ UNCHANGED mainVars

NextClean == CleanCall \/ CleanAgain

SpecClean == InitClean /\ [][NextClean]_vars

\* ---- parse_questions ----

\* parse_questions called on each text of arg in turn
ParseCall ==
    /\ pc = "parse"
    /\ ret' = Append(ret, parse_questions(arg[Len(ret) + 1]))
    /\ pc' = IF Len(ret) + 1 = Len(arg) THEN "parsed" ELSE "parse"
    /\ UNCHANGED <<arg, authored>>
    /\ UNCHANGED mainVars

NextParse == ParseCall

MaxLines == 5

\* the lines "1.", "2.", "Stem", "a. X", "ANS: B", "ANS: b"
LineMenu == {<<49, 46>>, <<50, 46>>, <<83, 116, 101, 109>>, <<97, 46, 32, 88>>, <<65, 78, 83, 58, 32, 66>>, <<65, 78, 83, 58, 32, 98>>}

\* a text of up to MaxLines lines of the menu: authored is its lines
InitParse ==
    /\ pc = "parse"
    /\ authored \in SeqsUpTo(LineMenu, MaxLines)
    /\ authored # <<>>
    /\ arg = <<Join(authored, <<NL>>)>>
    /\ ret = <<>>
    /\ NoMain

SpecParse == InitParse /\ [][NextParse]_vars

\* ---- parse_questions on one well-formed block ----

MaxStemLines == 2

\* the digits of a question number with the number they denote
NumberMenu ==
    {[digits |-> <<49>>, value |-> 1],
     [digits |-> <<49, 50>>, value |-> 12],
     [digits |-> <<48, 48, 55>>, value |-> 7]}

\* the orders in which the four option lines can follow each other
OptionOrders ==
    {o \in [1..4 -> 97..100] : \A i, j \in 1..4 : o[i] = o[j] => i = j}

\* a block is authored with its number, 1..MaxStemLines stem lines, the order
\* of its option lines, the option whose text runs over two lines (0: none)
\* and the letter of its ANS line
WellFormedBlocks ==
    [number : NumberMenu, nstem : 1..MaxStemLines, order : OptionOrders,
     multi : {0} \cup (97..100),
     ans : (65..68) \cup (97..100)]

\* the option line "<letter>. O<LETTER>" and its second line "more"
OptionLines(w, i) ==
    <<<<w.order[i], DOT, SP, 79, upper(w.order[i])>>>>
    \o (IF w.multi = w.order[i] THEN <<<<109, 111, 114, 101>>>> ELSE <<>>)

\* "<digits>.", the stem lines "St1", "St2", ..., the option lines
\* and "ANS: <letter>"
WellFormedLines(w) ==
    <<w.number.digits \o <<DOT>>>>
    \o [j \in 1..w.nstem |-> <<83, 116, 48 + j>>]
    \o OptionLines(w, 1) \o OptionLines(w, 2)
    \o OptionLines(w, 3) \o OptionLines(w, 4)
    \o <<<<65, 78, 83, 58, 32>> \o <<w.ans>>>>

\* the record the block was authored to give
WellFormedRecord(w) ==
    [num |-> w.number.value,
     stem |-> Join([j \in 1..w.nstem |-> <<83, 116, 48 + j>>], <<SP>>),
     options |-> [l \in 97..100 |->
                     <<79, l - 32>>
                     \o (IF w.multi = l THEN <<32, 109, 111, 114, 101>> ELSE <<>>)],
     answer |-> IF w.ans \in 65..68 THEN w.ans + 32 ELSE w.ans]

InitBlock ==
    /\ pc = "parse"
    /\ authored \in WellFormedBlocks
    /\ arg = <<Join(WellFormedLines(authored), <<NL>>)>>
    /\ ret = <<>>
    /\ NoMain

SpecBlock == InitBlock /\ [][NextParse]_vars

\* ---- parse_questions with and without a preamble ----

MaxPreLines == 2
MaxRestLines == 3

\* the lines "Intro", "9.", "MULTIPLE"
PreMenu == {<<73, 110, 116, 114, 111>>, <<57, 46>>, <<77, 85, 76, 84, 73, 80, 76, 69>>}

\* a preamble: up to MaxPreLines lines, with or without a final newline
Preambles ==
    {Join(ls, <<NL>>) \o tail :
        ls \in SeqsUpTo(PreMenu, MaxPreLines), tail \in {<<>>, <<NL>>}}

Remainders == {Join(ls, <<NL>>) : ls \in SeqsUpTo(LineMenu, MaxRestLines)}

\* the text P + "MULTIPLE CHOICE" + newline + R, and R alone
InitPreamble ==
    /\ pc = "parse"
    /\ authored \in [P : Preambles, R : Remainders]
    /\ arg = <<authored.P \o kw_marker \o <<NL>> \o authored.R, authored.R>>
    /\ ret = <<>>
    /\ NoMain

SpecPreamble == InitPreamble /\ [][NextParse]_vars

-----------------------------------------------------------------------------
(* Properties of parse_questions on texts of menu lines (SpecParse).       *)

\* a line "<digits>."
IsNumLine(l) ==
    /\ Len(l) >= 2
    /\ l[Len(l)] = DOT
    /\ \A i \in 1..(Len(l) - 1) : IsDigit(l[i])

\* the number a line "<digits>." declares
RECURSIVE NumOfLine(_, _)
NumOfLine(l, i) ==
    IF i = 0 THEN 0 ELSE 10 * NumOfLine(l, i - 1) + (l[i] - 48)

\* a line "ANS: <letter A-D>"
IsAnsLine(l) == Len(l) = 6 /\ SubSeq(l, 1, 5) = <<65, 78, 83, 58, 32>> /\ l[6] \in 65..68

\* a line "<letter a-d>. <text>"
IsOptLine(l) == Len(l) >= 4 /\ l[1] \in 97..100 /\ l[2] = DOT /\ l[3] = SP

\* the last line of the block whose number line is lines[k]
BlockEnd(lines, k) ==
    MinOf({j \in k..Len(lines) : j = Len(lines) \/ IsNumLine(lines[j + 1])})

\* lines[k] opens a block of the shape "<digits>." + line break + body
OpensBlock(lines, k) ==
    /\ IsNumLine(lines[k])
    /\ BlockEnd(lines, k) > k

\* ... whose body has no "ANS:" marker followed by a letter A-D
Markerless(lines, k) ==
    /\ OpensBlock(lines, k)
    /\ \A j \in (k + 1)..BlockEnd(lines, k) : ~IsAnsLine(lines[j])

\* C1: when some block of the shape "<digits>." + line break + body has no
\* "ANS:" marker followed by a letter A-D, parse_questions ends in the
\* missing-answer error naming the number of such a block, and returns no
\* record
C1_MissingAnsIsFatal ==
    (pc = "parsed" /\ \E k \in 1..Len(authored) : Markerless(authored, k))
    => /\ ret[1].exc = "ValueError"
       /\ \E k \in 1..Len(authored) :
             /\ Markerless(authored, k)
             /\ ret[1].num = NumOfLine(authored[k], Len(authored[k]) - 1)
       /\ ret[1].questions = <<>>

\* the text is one block: a number line, lines that are neither number,
\* option nor answer lines, and a final "ANS: <A-D>" line
IsOptionlessBlock(lines) ==
    /\ Len(lines) >= 2
    /\ IsNumLine(lines[1])
    /\ IsAnsLine(lines[Len(lines)])
    /\ \A j \in 2..(Len(lines) - 1) :
          /\ ~IsNumLine(lines[j])
          /\ ~IsOptLine(lines[j])
          /\ ~Contains(lines[j], kw_ans)

\* C9: a block with an "ANS:" marker and no option marker is not fatal: it
\* gives a record whose stem is the body before "ANS:", newlines collapsed
\* and trimmed, and whose options mapping is empty
C9_OptionlessBlockIsRecord ==
    (pc = "parsed" /\ IsOptionlessBlock(authored))
    => ret[1] = [exc |-> "none", num |-> 0, questions |->
                   <<[num |-> NumOfLine(authored[1], Len(authored[1]) - 1),
                      stem |-> Join(SubSeq(authored, 2, Len(authored) - 1),
                                    <<SP>>),
                      options |-> <<>>,
                      answer |-> authored[Len(authored)][6] + 32]>>]

-----------------------------------------------------------------------------
(* Properties of parse_questions on a well-formed block (SpecBlock).       *)

\* C2 as stated: whatever the case of the letter of the ANS line, the block
\* gives one record whose answer is the letter in lowercase
C2_AnswerAnyCase ==
    pc = "parsed"
    => /\ ret[1].exc = "none"
       /\ Len(ret[1].questions) = 1
       /\ ret[1].questions[1].answer = lower(authored.ans)

\* C2, amended: an uppercase letter A-D of the ANS line gives one record
\* whose answer is the letter in lowercase; a lowercase letter a-d is not
\* captured, and the call fails with the missing-answer error naming the
\* number of the block
C2_AnswerUppercaseOnly ==
    pc = "parsed"
    => IF authored.ans \in 65..68
       THEN /\ ret[1].exc = "none"
            /\ Len(ret[1].questions) = 1
            /\ ret[1].questions[1].answer = authored.ans + 32
       ELSE ret[1] = [exc |-> "ValueError", num |-> authored.number.value,
                      questions |-> <<>>]

C2_Witness ==
    /\ pc = "parsed"
    /\ authored.ans = 98
    /\ ret[1].exc = "ValueError"

\* C3: a well-formed block gives exactly one record: its number, its stem
\* lines joined by one space, each option letter with the text between its
\* marker and the next marker (or the ANS line), newlines collapsed and
\* trimmed, and the answer letter in lowercase
C3_WellFormedBlock ==
    (pc = "parsed" /\ authored.ans \in 65..68)
    => ret[1] = [exc |-> "none", num |-> 0,
                 questions |-> <<WellFormedRecord(authored)>>]

C3_Witness ==
    /\ pc = "parsed"
    /\ authored.ans = 66
    /\ authored.order = <<99, 97, 100, 98>>
    /\ authored.multi = 100
    /\ authored.nstem = 2
    /\ Len(ret[1].questions) = 1
    /\ ret[1].questions[1].options[100] = <<79, 68, 32, 109, 111, 114, 101>>

-----------------------------------------------------------------------------
(* Properties of the preamble (SpecPreamble).                              *)

\* C7: the text P + "MULTIPLE CHOICE" + newline + R has the outcome of R
\* alone, the same records or the same error
C7_PreambleSkipped == pc = "parsed" => ret[1] = ret[2]

C7_Witness ==
    /\ pc = "parsed"
    /\ authored.P = <<57, 46>> \o <<NL>> \o <<73, 110, 116, 114, 111>> \o <<NL>>
    /\ ret[1].exc = "none"
    /\ Len(ret[1].questions) = 1

-----------------------------------------------------------------------------
(* Properties of rtf_to_text (SpecRtf).                                    *)

HasBrace(s) == \E i \in 1..Len(s) : s[i] = LBRACE \/ s[i] = RBRACE

HasControlWord(s) ==
    \E i \in 1..(Len(s) - 1) : s[i] = BSL /\ IsLetter(s[i + 1])

\* C6 as stated: the text returned holds no brace and no control word (a
\* backslash followed by a letter)
C6_NoControlSyntax ==
    pc = "returned" => ~HasBrace(ret[1]) /\ ~HasControlWord(ret[1])

\* C6, amended: the text returned holds no brace
C6_NoBrace == pc = "returned" => ~HasBrace(ret[1])

\* an escaped closing brace between two letters
C6_Witness ==
    /\ pc = "returned"
    /\ arg[1] = <<98, BSL, RBRACE, 98>>
    /\ ret[1] = <<98, 98>>

-----------------------------------------------------------------------------
(* Properties of clean_text (SpecClean).                                   *)

\* a is b with some elements left out
RECURSIVE IsSubsequence(_, _)
IsSubsequence(a, b) ==
    IF a = <<>> THEN TRUE
    ELSE IF b = <<>> THEN FALSE
    ELSE IF Head(a) = Head(b) THEN IsSubsequence(Tail(a), Tail(b))
    ELSE IsSubsequence(a, Tail(b))

\* position i of s is the first / the last of its line
LineFirst(s, i) == i = 1 \/ s[i - 1] = NL
LineLast(s, i) == i = Len(s) \/ s[i + 1] = NL

\* every line of s, the text split at its newlines, is non-empty, has no
\* whitespace at either end and is not "d"
IsClean(s) ==
    \A i \in 1..Len(s) :
        /\ s[i] = NL => ~LineFirst(s, i) /\ ~LineLast(s, i)
        /\ (s[i] # NL /\ IsSpace(s[i])) => ~LineFirst(s, i) /\ ~LineLast(s, i)
        /\ s[i] = 100 => ~(LineFirst(s, i) /\ LineLast(s, i))

\* C8: clean_text applied to its own output changes nothing; the output has
\* no empty line, no line with whitespace at either end and no line "d", and
\* its lines are lines of the input, trimmed, in their order
C8_CleanIdempotent ==
    /\ pc \in {"cleaned", "recleaned"}
       => /\ IsClean(ret[1])
          /\ IsSubsequence(SplitLines(ret[1]), StripEach(SplitLines(arg[1])))
    /\ pc = "recleaned" => ret[2] = ret[1]

\* the input " d\nx \n\nd" gives "x"
C8_Witness ==
    /\ pc = "recleaned"
    /\ arg[1] = <<SP, 100, NL, 120, SP>>
    /\ ret[1] = <<120>>

-----------------------------------------------------------------------------
(* Properties of the batch run and of the package (Spec).                  *)

\* the files whose archive has been written
Archived == {n \in DOMAIN docs : OutZip(n) \in DOMAIN archives}

\* the names of the "Converting ..." lines printed, in order
Started ==
    LET ls == SelectSeq(stdout, LAMBDA l : l.kind = "Converting")
    IN  [k \in 1..Len(ls) |-> ls[k].name]

DonePrinted == \E k \in 1..Len(stdout) : stdout[k].kind = "Done."

\* C5: the files are taken one at a time in lexicographic order of their
\* names; when the parse of file k fails the run ends there: every file
\* before k has its archive, file k and the files after it have none, and
\* "Done." is not printed
C5_BatchStopsAtFirstFailure ==
    /\ pc # "start"
       => /\ {files[k] : k \in 1..Len(files)} = DOMAIN docs
          /\ \A i, j \in 1..Len(files) : i < j => LexLess(files[i], files[j])
          /\ \E k \in 0..Len(files) : Started = SubSeq(files, 1, k)
    /\ pc = "crashed"
       => /\ Converted(docs[files[fi]]).exc # "none"
          /\ \A j \in 1..Len(files) : files[j] \in Archived <=> j < fi
          /\ ~DonePrinted
          /\ ~ENABLED Next

\* the parse of the second of three files fails
C5_Witness ==
    /\ pc = "crashed"
    /\ Len(files) = 3
    /\ fi = 2
    /\ Archived = {files[1]}

\* the archive of file n: the manifest, the test and the item files
ItemEntries(n) ==
    LET z == archives[OutZip(n)] IN [k \in 1..(Len(z) - 2) |-> z[k + 2]]

\* C4: the records are those of the document in order of appearance, and the
\* item files written, the assessmentItemRef entries of the test, the file
\* entries of the manifest and the entries of the archive follow that order
C4_AppearanceOrder ==
    /\ pc \in {"items", "manifest", "zip"}
       => /\ questions = [k \in 1..Len(authored[files[fi]]) |->
                             AuthoredRecord(authored[files[fi]][k], k)]
          /\ \A k \in 1..Len(item_files) :
                /\ item_files[k] = AuthoredItem(authored[files[fi]][k])
                /\ writes[k] = WorkPath(Work(files[fi]), item_files[k])
    /\ \A n \in Archived :
          LET z == archives[OutZip(n)]
              items == AuthoredItems(authored[n])
          IN  /\ z[1].content.files = <<kw_test>> \o items
              /\ z[2].content.refs = items
              /\ [k \in 1..Len(ItemEntries(n)) |-> ItemEntries(n)[k].name]
                 = items

\* a document with the questions 1, 3, 2 in that order
C4_Witness ==
    \E n \in Archived :
        /\ [k \in 1..Len(authored[n]) |-> authored[n][k].digits]
           = <<<<49>>, <<51>>, <<50>>>>
        /\ archives[OutZip(n)][2].content.refs
           = <<<<105, 116, 101, 109, 115, 47, 81, 48, 48, 49, 46, 120, 109, 108>>, <<105, 116, 101, 109, 115, 47, 81, 48, 48, 51, 46, 120, 109, 108>>, <<105, 116, 101, 109, 115, 47, 81, 48, 48, 50, 46, 120, 109, 108>>>>

\* C10: the package of a file holds as many distinct item documents as the
\* document has records, one for each record with the stem, the options and
\* the answer of that record, and the test and the manifest reference each
\* item document once
C10_OneItemPerRecord ==
    \A n \in Archived :
        LET z == archives[OutZip(n)]
            recs == [k \in 1..Len(authored[n]) |->
                        AuthoredRecord(authored[n][k], k)]
        IN  /\ Cardinality({ItemEntries(n)[k].content :
                               k \in 1..Len(ItemEntries(n))}) = Len(recs)
            /\ \A k \in 1..Len(recs) :
                  \E e \in 1..Len(ItemEntries(n)) :
                      ItemEntries(n)[e].content = ItemXml(recs[k])
            /\ \A i, j \in 1..Len(z[2].content.refs) :
                  z[2].content.refs[i] = z[2].content.refs[j] => i = j
            /\ \A i, j \in 1..Len(z[1].content.files) :
                  z[1].content.files[i] = z[1].content.files[j] => i = j

=============================================================================
